---- MODULE Spec2Model ----
(***************************************************************************)
(* Model of src-tauri/src/lib.rs: the supervision of the server sidecar.   *)
(*                                                                         *)
(* Processes of the model:                                                 *)
(*   - setup            the Builder::setup closure (spawn, manage, tasks)  *)
(*   - the sidecar      the spawned OS process feeding the rx channel      *)
(*   - the output relay the first task spawned by setup (rx.recv loop)     *)
(*   - the readiness    the second task spawned by setup, which runs       *)
(*     task             wait_for_server and then emits ready / error       *)
(*   - the triggers     invocations of the on_window_event handler with    *)
(*                      WindowEvent::Destroyed and of the run callback     *)
(*                      with RunEvent::Exit                                *)
(***************************************************************************)
EXTENDS Integers, Sequences, FiniteSets, TLC

(***************************************************************************)
(* Program constants.                                                      *)
(***************************************************************************)
SERVER_PORT == 8556

\* reqwest client timeout of one request, in milliseconds (Duration::from_secs(3))
PerAttemptTimeout == 3000

\* tokio::time::sleep between two attempts, in milliseconds
Interval == 300

(***************************************************************************)
(* Bounds of the model.                                                    *)
(***************************************************************************)
\* max_attempts of wait_for_server; the source sets 300, the model scales it down
max_attempts == 2

\* number of trigger-handler invocations that may happen in one run
NumTriggers == 2

\* number of output events (lines, errors) the sidecar emits before it ends
MaxOutput == 2

\* duration, in milliseconds, of a request that is answered before the timeout
FastReply == 20

Triggers == 1 .. NumTriggers

\* odd invocations are WindowEvent::Destroyed, even ones RunEvent::Exit
TriggerKind(t) == IF t % 2 = 1 THEN "Destroyed" ELSE "Exit"

\* the invocations of one handler are numbered in the order they start
InOrder(t, pcs) == t > 2 => pcs[t - 2] # "idle"

\* Option<i32> of TerminatedPayload.code: <<>> is None, <<c>> is Some(c)
NoCode == <<>>
ExitCodes == {NoCode, <<1>>}

\* what client.get(&url).send().await can come back with: Ok(resp) with a
\* status code, or Err of reqwest (connection refused, timeout of the client)
Answer(code) == [result |-> "Ok", status |-> code]
Failure(why) == [result |-> "Err", status |-> why]
NoResponse == [result |-> "None", status |-> "none"]
Responses == {Answer(200), Answer(302), Answer(404),
              Failure("connect"), Failure("timeout")}

VARIABLES
    setupPc,     \* "start" | "done" | "failed": the setup closure
    managed,     \* app.manage(ServerState) has happened
    ready,       \* ServerState.ready
    readyLock,   \* holder of the ready mutex: "free" or "readiness"
    child,       \* ServerState.child: "None" or "Some"
    childLock,   \* holder of the child mutex: 0 (free) or a trigger
    proc,        \* the sidecar process: "none" | "running" | "killed" | "exited"
    produced,    \* number of output events the sidecar has sent
    rx,          \* the channel of CommandEvents, in order
    rxClosed,    \* every sender of rx is dropped
    sent,        \* every CommandEvent sent on rx so far, in order
    relayPc,     \* "idle" | "recv" | "done": the output relay task
    infoLog,     \* lines passed to log::info! by the relay
    warnLog,     \* lines passed to log::warn! by the relay
    emitted,     \* events passed to emit, in order
    wfsPc,       \* "idle" | "build" | "send" | "await" | "sleep" | "returned"
    i,           \* loop variable of wait_for_server
    requests,    \* requests started by wait_for_server
    sleeps,      \* inter-attempt sleeps performed by wait_for_server
    elapsed,     \* time consumed by wait_for_server, in milliseconds
    lastResp,    \* outcome of the request matched last, NoResponse when dropped
    wfsResult,   \* Pending, or the Result wait_for_server returned
    rtPc,        \* readiness task: "idle" | "wait" | "set_ready" | "navigate"
                 \*   | "emit_ready" | "emit_error" | "done"
    trig,        \* per invocation: "idle" | "locked" | "kill" | "unlock" | "done"
    foundState,  \* per invocation: try_state returned Some
    kills,       \* kill signals issued
    killResult,  \* "none" | "Ok" | "Err": what child.kill() returned
    appExited    \* the application process is gone

stateVars == <<managed, ready, readyLock, child, childLock>>
procVars  == <<proc, produced, rx, rxClosed, sent>>
relayVars == <<relayPc, infoLog, warnLog>>
wfsVars   == <<wfsPc, i, requests, sleeps, elapsed, lastResp, wfsResult>>
rtVars    == <<rtPc>>
trigVars  == <<trig, foundState, kills, killResult>>

vars == <<setupPc, stateVars, procVars, relayVars, emitted, wfsVars, rtVars,
          trigVars, appExited>>

(***************************************************************************)
(* Pure helpers.                                                           *)
(***************************************************************************)
\* StatusCode::is_success
is_success(code) == code >= 200 /\ code < 300

\* is_redirection that accepts no status
is_redirection_Never(code) == FALSE

\* StatusCode::is_redirection
is_redirection(code) == code >= 300 /\ code < 400

\* the first match arm of wait_for_server: Ok(resp) with its guard
ReadyResponse(r) ==
    /\ r.result = "Ok"
    /\ is_success(r.status) \/ is_redirection(r.status)

Pending == [tag |-> "Pending"]
Ok == [tag |-> "Ok"]
Err(msg) == [tag |-> "Err", msg |-> msg]

\* TimeoutMessageFor that leaves out the division by 1000
TimeoutMessageFor_Millis(attempts, port) ==
    [error |-> "Server not ready", seconds |-> attempts * 300, port |-> port]

\* format!("Server not ready after {}s on port {}", max_attempts * 300 / 1000,
\* port): the two values the message is built from
TimeoutMessageFor(attempts, port) ==
    [error |-> "Server not ready", seconds |-> (attempts * 300) \div 1000,
     port |-> port]

\* the message of the Err returned after the loop
TimeoutMessage(port) == TimeoutMessageFor(max_attempts, port)

\* the value of max_attempts in the source
SourceMaxAttempts == 300

\* the message of the Err returned when the client cannot be built
ClientBuildError == [error |-> "Client build error"]

\* str::trim of a line: the padding goes, the text stays
Trim(line) == [line EXCEPT !.pad = FALSE]

Event(name, payload) == [name |-> name, payload |-> payload]

\* CommandEvent
Stdout(line) == [type |-> "Stdout", line |-> line]
Stderr(line) == [type |-> "Stderr", line |-> line]
Terminated(code) == [type |-> "Terminated", code |-> code]
ErrorEvent == [type |-> "Error"]

\* the n-th line of output of the sidecar as it is read: the text with its
\* line end
Line(n) == [n |-> n, pad |-> TRUE]

OutputEvents(n) == {Stdout(Line(n)), Stderr(Line(n)), ErrorEvent}

Init ==
    /\ setupPc = "start"
    /\ managed = FALSE
    /\ ready = FALSE
    /\ readyLock = "free"
    /\ child = "None"
    /\ childLock = 0
    /\ proc = "none"
    /\ produced = 0
    /\ rx = <<>>
    /\ rxClosed = FALSE
    /\ sent = <<>>
    /\ relayPc = "idle"
    /\ infoLog = <<>>
    /\ warnLog = <<>>
    /\ emitted = <<>>
    /\ wfsPc = "idle"
    /\ i = 0
    /\ requests = 0
    /\ sleeps = 0
    /\ elapsed = 0
    /\ lastResp = NoResponse
    /\ wfsResult = Pending
    /\ rtPc = "idle"
    /\ trig = [t \in Triggers |-> "idle"]
    /\ foundState = [t \in Triggers |-> FALSE]
    /\ kills = 0
    /\ killResult = "none"
    /\ appExited = FALSE

(***************************************************************************)
(* setup                                                                   *)
(***************************************************************************)
\* The sidecar command is created and spawned, ServerState is managed with
\* ready = false and child = Some(child), and both tasks are spawned.
SetupOk ==
    /\ ~appExited
    /\ setupPc = "start"
    /\ setupPc' = "done"
    /\ proc' = "running"
    /\ managed' = TRUE
    /\ ready' = FALSE
    /\ child' = "Some"
    /\ relayPc' = "recv"
    /\ rtPc' = "wait"
    /\ wfsPc' = "build"
    /\ UNCHANGED <<readyLock, childLock, produced, rx, rxClosed, sent, infoLog, warnLog,
                   emitted, i, requests, sleeps, elapsed, lastResp, wfsResult,  trigVars, appExited>>

\* SetupFail that has the tasks spawned before the error is returned
SetupFail_TasksStarted ==
    /\ ~appExited
    /\ setupPc = "start"
    /\ setupPc' = "failed"
    /\ relayPc' = "recv"
    /\ rtPc' = "wait"
    /\ wfsPc' = "build"
    /\ UNCHANGED <<stateVars, procVars, infoLog, warnLog, emitted, i, requests,
                   sleeps, elapsed, lastResp, wfsResult, trigVars, appExited>>

\* shell.sidecar(..) or sidecar_cmd.spawn() fails: the closure returns the
\* error through `?` before anything else is done.
SetupFail ==
    /\ ~appExited
    /\ setupPc = "start"
    /\ setupPc' = "failed"
    /\ UNCHANGED <<stateVars, procVars, relayVars, emitted, wfsVars, rtVars,
                   trigVars, appExited>>

(***************************************************************************)
(* The sidecar process, as seen through rx.                                *)
(***************************************************************************)
\* The process writes a line to stdout or stderr, or reading from it fails;
\* nothing is read after a failure.
ProcessOutput(ev) ==
    /\ ~appExited
    /\ proc \in {"running", "killed"}
    /\ produced < MaxOutput
    /\ \A k \in DOMAIN sent : sent[k].type # "Error"
    /\ produced' = produced + 1
    /\ rx' = Append(rx, ev)
    /\ sent' = Append(sent, ev)
    /\ UNCHANGED <<setupPc, stateVars, proc, rxClosed, relayVars, emitted, wfsVars,
                   rtVars, trigVars, appExited>>

\* The process ends, on its own or because it was killed: one Terminated
\* event is sent and the senders of rx are dropped.
ProcessTerminated(code) ==
    /\ ~appExited
    /\ proc \in {"running", "killed"}
    /\ proc' = "exited"
    /\ rx' = Append(rx, Terminated(code))
    /\ sent' = Append(sent, Terminated(code))
    /\ rxClosed' = TRUE
    /\ UNCHANGED <<setupPc, stateVars, produced, relayVars, emitted, wfsVars,
                   rtVars, trigVars, appExited>>

(***************************************************************************)
(* The output relay task.                                                  *)
(***************************************************************************)
\* RelayHandle that reports an Error event as a crash too
RelayHandle_CrashOnError(event) ==
    CASE event.type = "Stdout" ->
            /\ infoLog' = Append(infoLog, Trim(event.line))
            /\ UNCHANGED <<warnLog, emitted>>
      [] event.type = "Stderr" ->
            /\ warnLog' = Append(warnLog, Trim(event.line))
            /\ UNCHANGED <<infoLog, emitted>>
      [] event.type = "Terminated" ->
            /\ emitted' = Append(emitted, Event("server-crashed", event.code))
            /\ UNCHANGED <<infoLog, warnLog>>
      [] OTHER ->
            /\ emitted' = Append(emitted, Event("server-crashed", NoCode))
            /\ UNCHANGED <<infoLog, warnLog>>

\* RelayHandle that logs stderr lines at info level as well
RelayHandle_StderrAsInfo(event) ==
    CASE event.type \in {"Stdout", "Stderr"} ->
            /\ infoLog' = Append(infoLog, Trim(event.line))
            /\ UNCHANGED <<warnLog, emitted>>
      [] event.type = "Terminated" ->
            /\ emitted' = Append(emitted, Event("server-crashed", event.code))
            /\ UNCHANGED <<infoLog, warnLog>>
      [] OTHER -> UNCHANGED <<infoLog, warnLog, emitted>>

\* RelayHandle that publishes the crash without the code
RelayHandle_LosesCode(event) ==
    CASE event.type = "Stdout" ->
            /\ infoLog' = Append(infoLog, Trim(event.line))
            /\ UNCHANGED <<warnLog, emitted>>
      [] event.type = "Stderr" ->
            /\ warnLog' = Append(warnLog, Trim(event.line))
            /\ UNCHANGED <<infoLog, emitted>>
      [] event.type = "Terminated" ->
            /\ emitted' = Append(emitted, Event("server-crashed", NoCode))
            /\ UNCHANGED <<infoLog, warnLog>>
      [] OTHER -> UNCHANGED <<infoLog, warnLog, emitted>>

\* the match of the relay on one event
RelayHandle(event) ==
    CASE event.type = "Stdout" ->
            /\ infoLog' = Append(infoLog, Trim(event.line))
            /\ UNCHANGED <<warnLog, emitted>>
      [] event.type = "Stderr" ->
            /\ warnLog' = Append(warnLog, Trim(event.line))
            /\ UNCHANGED <<infoLog, emitted>>
      [] event.type = "Terminated" ->
            /\ emitted' = Append(emitted, Event("server-crashed", event.code))
            /\ UNCHANGED <<infoLog, warnLog>>
      [] OTHER -> UNCHANGED <<infoLog, warnLog, emitted>>

\* RelayRecv that clears ServerState.child when the process has terminated
RelayRecv_ClearsChild ==
    /\ ~appExited
    /\ relayPc = "recv"
    /\ rx # <<>>
    /\ rx' = Tail(rx)
    /\ RelayHandle(Head(rx))
    /\ child' = IF Head(rx).type = "Terminated" THEN "None" ELSE child
    /\ UNCHANGED <<setupPc, managed, ready, readyLock, childLock, proc, produced,
                   rxClosed, sent, relayPc, wfsVars, rtVars, trigVars, appExited>>

\* rx.recv().await returns Some(event)
RelayRecv ==
    /\ ~appExited
    /\ relayPc = "recv"
    /\ rx # <<>>
    /\ rx' = Tail(rx)
    /\ RelayHandle(Head(rx))
    /\ UNCHANGED <<setupPc, stateVars, proc, produced, rxClosed, sent, relayPc, wfsVars,
                   rtVars, trigVars, appExited>>

\* rx.recv().await returns None: the loop and the task end
RelayEnd ==
    /\ ~appExited
    /\ relayPc = "recv"
    /\ rx = <<>>
    /\ rxClosed
    /\ relayPc' = "done"
    /\ UNCHANGED <<setupPc, stateVars, procVars, infoLog, warnLog, emitted, wfsVars,
                   rtVars, trigVars, appExited>>

(***************************************************************************)
(* wait_for_server, run by the readiness task.                             *)
(***************************************************************************)
\* WfsReturn with a match that takes the Ok branch for every result
WfsReturn_AlwaysOkBranch(result) ==
    /\ wfsPc' = "returned"
    /\ wfsResult' = result
    /\ rtPc' = "set_ready"

\* `return` of wait_for_server and the match of the readiness task on it
WfsReturn(result) ==
    /\ wfsPc' = "returned"
    /\ wfsResult' = result
    /\ rtPc' = IF result = Ok THEN "set_ready" ELSE "emit_error"

\* the time one request takes: the client gives up at its timeout
RequestTime(r) ==
    IF r = Failure("timeout") THEN PerAttemptTimeout ELSE FastReply

\* Client::builder().timeout(..).build() succeeds; the loop starts with i = 0
WfsBuildOk ==
    /\ ~appExited
    /\ wfsPc = "build"
    /\ wfsPc' = "send"
    /\ i' = 0
    /\ UNCHANGED <<setupPc, stateVars, procVars, relayVars, emitted, requests,
                   sleeps, elapsed, lastResp, wfsResult, rtVars, trigVars,
                   appExited>>

\* Client::builder().timeout(..).build() fails: `?` returns the error
WfsBuildFail ==
    /\ ~appExited
    /\ wfsPc = "build"
    /\ WfsReturn(Err(ClientBuildError))
    /\ UNCHANGED <<setupPc, stateVars, procVars, relayVars, emitted, i, requests,
                   sleeps, elapsed, lastResp,  trigVars, appExited>>

\* client.get(&url).send(): attempt i is started
WfsSend ==
    /\ ~appExited
    /\ wfsPc = "send"
    /\ requests' = requests + 1
    /\ wfsPc' = "await"
    /\ UNCHANGED <<setupPc, stateVars, procVars, relayVars, emitted, i, sleeps,
                   elapsed, lastResp, wfsResult, rtVars, trigVars, appExited>>

\* .await of the request ends with r, and r is matched
WfsResponse(r) ==
    /\ ~appExited
    /\ wfsPc = "await"
    /\ lastResp' = r
    /\ elapsed' = elapsed + RequestTime(r)
    /\ IF ReadyResponse(r)
       THEN WfsReturn(Ok)
       ELSE /\ wfsPc' = "sleep"
            /\ UNCHANGED <<wfsResult, rtPc>>
    /\ UNCHANGED <<setupPc, stateVars, procVars, relayVars, emitted, i, requests,
                   sleeps,  trigVars, appExited>>

\* WfsSleep with a loop that runs once more than max_attempts
WfsSleep_OneMore ==
    /\ ~appExited
    /\ wfsPc = "sleep"
    /\ sleeps' = sleeps + 1
    /\ elapsed' = elapsed + Interval
    /\ lastResp' = NoResponse
    /\ i' = i + 1
    /\ IF i + 1 <= max_attempts
       THEN /\ wfsPc' = "send"
            /\ UNCHANGED <<wfsResult, rtPc>>
       ELSE WfsReturn(Err(TimeoutMessage(SERVER_PORT)))
    /\ UNCHANGED <<setupPc, stateVars, procVars, relayVars, emitted, requests,
                   trigVars, appExited>>

\* the `_` arm: sleep 300 ms, then the next iteration or the end of the loop
WfsSleep ==
    /\ ~appExited
    /\ wfsPc = "sleep"
    /\ sleeps' = sleeps + 1
    /\ elapsed' = elapsed + Interval
    /\ lastResp' = NoResponse
    /\ i' = i + 1
    /\ IF i + 1 < max_attempts
       THEN /\ wfsPc' = "send"
            /\ UNCHANGED <<wfsResult, rtPc>>
       ELSE WfsReturn(Err(TimeoutMessage(SERVER_PORT)))
    /\ UNCHANGED <<setupPc, stateVars, procVars, relayVars, emitted, requests,  trigVars, appExited>>

(***************************************************************************)
(* The readiness task after wait_for_server returned.                      *)
(***************************************************************************)
\* RtSetReady that does not find the state and writes nothing
RtSetReady_NoWrite ==
    /\ ~appExited
    /\ rtPc = "set_ready"
    /\ rtPc' = "navigate"
    /\ UNCHANGED <<setupPc, stateVars, procVars, relayVars, emitted, wfsVars,
                   trigVars, appExited>>

\* Ok branch: try_state, state.ready.lock(), *ready = true
RtSetReady ==
    /\ ~appExited
    /\ rtPc = "set_ready"
    /\ IF managed
       THEN /\ readyLock = "free"
            /\ readyLock' = "readiness"
            /\ ready' = TRUE
       ELSE UNCHANGED <<readyLock, ready>>
    /\ rtPc' = "navigate"
    /\ UNCHANGED <<setupPc, managed, child, childLock, procVars, relayVars, emitted,
                   wfsVars,  trigVars, appExited>>

\* the guard on ready is dropped; the main webview, if there is one, is navigated
RtNavigate ==
    /\ ~appExited
    /\ rtPc = "navigate"
    /\ readyLock' = "free"
    /\ rtPc' = "emit_ready"
    /\ UNCHANGED <<setupPc, managed, ready, child, childLock, procVars, relayVars,
                   emitted, wfsVars, trigVars, appExited>>

\* handle.emit("server-ready", SERVER_PORT)
RtEmitReady ==
    /\ ~appExited
    /\ rtPc = "emit_ready"
    /\ emitted' = Append(emitted, Event("server-ready", SERVER_PORT))
    /\ rtPc' = "done"
    /\ UNCHANGED <<setupPc, stateVars, procVars, relayVars, wfsVars, 
                   trigVars, appExited>>

\* RtEmitError that also takes the child out of the state and kills it
RtEmitError_KillsChild ==
    /\ ~appExited
    /\ rtPc = "emit_error"
    /\ emitted' = Append(emitted, Event("server-error", wfsResult.msg))
    /\ child' = "None"
    /\ kills' = kills + 1
    /\ rtPc' = "done"
    /\ UNCHANGED <<setupPc, managed, ready, readyLock, childLock, procVars,
                   relayVars, wfsVars, trig, foundState, killResult, appExited>>

\* Err branch: handle.emit("server-error", e)
RtEmitError ==
    /\ ~appExited
    /\ rtPc = "emit_error"
    /\ emitted' = Append(emitted, Event("server-error", wfsResult.msg))
    /\ rtPc' = "done"
    /\ UNCHANGED <<setupPc, stateVars, procVars, relayVars, wfsVars, 
                   trigVars, appExited>>

(***************************************************************************)
(* The shutdown triggers: on_window_event with Destroyed, run with Exit.   *)
(* Both handlers have the same body.                                       *)
(***************************************************************************)
\* the end of a handler; after the one of RunEvent::Exit the application is gone
TrigDone(t) ==
    /\ trig' = [trig EXCEPT ![t] = "done"]
    /\ appExited' = (appExited \/ TriggerKind(t) = "Exit")

\* try_state returns None: the handler does nothing
TrigNoState(t) ==
    /\ ~appExited
    /\ trig[t] = "idle"
    /\ InOrder(t, trig)
    /\ ~managed
    /\ TrigDone(t)
    /\ UNCHANGED <<setupPc, stateVars, procVars, relayVars, emitted, wfsVars,
                   rtVars, foundState, kills, killResult>>

\* try_state returns Some(state) and state.child.lock() is acquired
TrigLock(t) ==
    /\ ~appExited
    /\ trig[t] = "idle"
    /\ InOrder(t, trig)
    /\ managed
    /\ childLock = 0
    /\ childLock' = t
    /\ foundState' = [foundState EXCEPT ![t] = TRUE]
    /\ trig' = [trig EXCEPT ![t] = "locked"]
    /\ UNCHANGED <<setupPc, managed, ready, readyLock, child, procVars, relayVars,
                   emitted, wfsVars, rtVars, kills, killResult, appExited>>

\* TrigTake with a handle that is read but left in place
TrigTake_LeavesHandle(t) ==
    /\ trig[t] = "locked"
    /\ child' = child
    /\ trig' = [trig EXCEPT ![t] = IF child = "Some" THEN "kill" ELSE "unlock"]
    /\ UNCHANGED <<setupPc, managed, ready, readyLock, childLock, procVars,
                   relayVars, emitted, wfsVars, rtVars, foundState, kills,
                   killResult, appExited>>

\* TrigTake that goes on to the kill whatever it found
TrigTake_KillsAnyway(t) ==
    /\ trig[t] = "locked"
    /\ child' = "None"
    /\ trig' = [trig EXCEPT ![t] = "kill"]
    /\ UNCHANGED <<setupPc, managed, ready, readyLock, childLock, procVars,
                   relayVars, emitted, wfsVars, rtVars, foundState, kills,
                   killResult, appExited>>

\* child_guard.take(): Some(child) goes on to the kill, None to the end
TrigTake(t) ==
    /\ trig[t] = "locked"
    /\ IF child = "Some"
       THEN /\ child' = "None"
            /\ trig' = [trig EXCEPT ![t] = "kill"]
       ELSE /\ child' = child
            /\ trig' = [trig EXCEPT ![t] = "unlock"]
    /\ UNCHANGED <<setupPc, managed, ready, readyLock, childLock, procVars,
                   relayVars, emitted, wfsVars, rtVars, foundState, kills,
                   killResult, appExited>>

\* TrigKill that drops the handle without killing
TrigKill_NoSignal(t, result) ==
    /\ trig[t] = "kill"
    /\ result = "Ok"
    /\ trig' = [trig EXCEPT ![t] = "unlock"]
    /\ UNCHANGED <<setupPc, stateVars, procVars, relayVars, emitted, wfsVars,
                   rtVars, foundState, kills, killResult, appExited>>

\* TrigKill that publishes a failed kill as server-error
TrigKill_ReportsFailure(t, result) ==
    /\ trig[t] = "kill"
    /\ kills' = kills + 1
    /\ IF proc = "running"
       THEN /\ result = "Ok"
            /\ proc' = "killed"
       ELSE proc' = proc
    /\ killResult' = result
    /\ emitted' = IF result = "Err"
                  THEN Append(emitted, Event("server-error", "kill failed"))
                  ELSE emitted
    /\ trig' = [trig EXCEPT ![t] = "unlock"]
    /\ UNCHANGED <<setupPc, stateVars, produced, rx, rxClosed, sent, relayVars,
                   wfsVars, rtVars, foundState, appExited>>

\* TrigKill that returns only once the process is gone
TrigKill_WaitsForExit(t, result) ==
    /\ trig[t] = "kill"
    /\ proc # "running"
    /\ kills' = kills + 1
    /\ proc' = proc
    /\ killResult' = result
    /\ trig' = [trig EXCEPT ![t] = "unlock"]
    /\ UNCHANGED <<setupPc, stateVars, produced, rx, rxClosed, sent, relayVars, emitted,
                   wfsVars, rtVars, foundState, appExited>>

\* let _ = child.kill(): the signal is sent; it fails when the process is gone
TrigKill(t, result) ==
    /\ trig[t] = "kill"
    /\ kills' = kills + 1
    /\ IF proc = "running"
       THEN /\ result = "Ok"
            /\ proc' = "killed"
       ELSE proc' = proc
    /\ killResult' = result
    /\ trig' = [trig EXCEPT ![t] = "unlock"]
    /\ UNCHANGED <<setupPc, stateVars, produced, rx, rxClosed, sent, relayVars, emitted,
                   wfsVars, rtVars, foundState, appExited>>

\* the guard on child is dropped and the handler returns
TrigUnlock(t) ==
    /\ trig[t] = "unlock"
    /\ childLock' = 0
    /\ TrigDone(t)
    /\ UNCHANGED <<setupPc, managed, ready, readyLock, child, procVars, relayVars,
                   emitted, wfsVars, rtVars, foundState, kills, killResult>>

(***************************************************************************)
(* The server_health command.                                              *)
(***************************************************************************)
\* what server_health returns for the outcome r of its GET: any response is
\* reported with status "ok" and its code, an error of the request as Err
HealthReply(r) ==
    IF r.result = "Ok"
    THEN [tag |-> "Ok", status |-> "ok", port |-> SERVER_PORT, statusCode |-> r.status]
    ELSE [tag |-> "Err", msg |-> [error |-> "Health check error", why |-> r.status]]

\* one invocation of the command: a GET on the port and a reply to the
\* caller; the command takes no state and writes none
server_health(r) ==
    /\ ~appExited
    /\ setupPc = "done"
    /\ HealthReply(r).tag \in {"Ok", "Err"}
    /\ UNCHANGED vars

(***************************************************************************)
(* The specification.                                                      *)
(***************************************************************************)
Next ==
    \/ SetupOk
    \/ SetupFail
    \/ \E n \in {produced + 1} : \E ev \in OutputEvents(n) : ProcessOutput(ev)
    \/ \E code \in ExitCodes : ProcessTerminated(code)
    \/ RelayRecv
    \/ RelayEnd
    \/ WfsBuildOk
    \/ WfsBuildFail
    \/ WfsSend
    \/ \E r \in Responses : WfsResponse(r)
    \/ WfsSleep
    \/ RtSetReady
    \/ RtNavigate
    \/ RtEmitReady
    \/ RtEmitError
    \/ \E t \in Triggers : TrigNoState(t)
    \/ \E t \in Triggers : TrigLock(t)
    \/ \E t \in Triggers : TrigTake(t)
    \/ \E t \in Triggers : \E result \in {"Ok", "Err"} : TrigKill(t, result)
    \/ \E t \in Triggers : TrigUnlock(t)

Spec == Init /\ [][Next]_vars

\* the outcomes of the GET of server_health, whose client has no timeout
HealthResponses == Responses \ {Failure("timeout")}

\* the supervision together with invocations of the server_health command
NextWithHealth ==
    \/ Next
    \/ \E r \in HealthResponses : server_health(r)

HealthSpec == Init /\ [][NextWithHealth]_vars

(***************************************************************************)
(* Vocabulary of the properties.                                           *)
(***************************************************************************)
\* the positions of `emitted` that hold an event of this name
Emissions(name) == {k \in DOMAIN emitted : emitted[k].name = name}

Published(name) == Emissions(name) # {}

\* invocation t went through the handler after ServerState was registered
RanWithState(t) == trig[t] = "done" /\ foundState[t]

\* the handles to the child that exist: the one in ServerState.child and
\* those taken out of it and not yet consumed by kill
LiveHandles ==
    (IF child = "Some" THEN 1 ELSE 0) + Cardinality({t \in Triggers : trig[t] = "kill"})

\* invocation t holds the lock and the handle is absent
C2_FindsAbsent(t) == trig[t] = "locked" /\ child = "None"

\* the time budget of wait_for_server
C8_Budget == max_attempts * (Interval + PerAttemptTimeout)

\* a response with a status in the 2xx or 3xx range
Status2xx3xx(r) == r.result = "Ok" /\ r.status \in 200 .. 399

(***************************************************************************)
(* C1: however the invocations of the Destroyed and Exit handlers          *)
(* interleave, never more than one kill signal is issued, and exactly one  *)
(* has been issued once an invocation that found the registered state has  *)
(* completed.                                                              *)
(***************************************************************************)
C1_ExactlyOneKill ==
    /\ kills <= 1
    /\ (\E t \in Triggers : RanWithState(t)) => kills = 1

\* two invocations, one of each handler, completed on the registered state
C1_Witness ==
    /\ RanWithState(1)
    /\ RanWithState(2)
    /\ kills = 1

(***************************************************************************)
(* C2: at most one live handle to the child exists; once                   *)
(* ServerState.child went from present to absent it stays absent; an       *)
(* invocation that finds it absent goes to its end without a kill and      *)
(* without changing the state, the process or the events.                  *)
(***************************************************************************)
C2_TakeOnce ==
    /\ [](LiveHandles <= 1)
    /\ [][managed /\ child = "None" => child' = "None"]_vars
    /\ [][\A t \in Triggers :
            C2_FindsAbsent(t) /\ trig'[t] # trig[t] =>
                /\ trig'[t] = "unlock"
                /\ UNCHANGED <<kills, killResult, child, ready, procVars, emitted>>]_vars
    /\ [][kills' # kills => \E t \in Triggers : trig[t] = "kill" /\ child = "None"]_vars

\* an invocation took the handle and completed; a later one found it absent
\* and is about to return
C2_Witness ==
    /\ RanWithState(1)
    /\ trig[2] = "unlock"
    /\ kills = 1
    /\ child = "None"

(***************************************************************************)
(* C3: whenever server-ready has been emitted, or is about to be,          *)
(* ServerState.ready is already true: the write precedes the emit.         *)
(***************************************************************************)
C3_ReadyBeforeEmit ==
    (Published("server-ready") \/ rtPc = "emit_ready") => ready

\* server-ready is out
C3_Witness ==
    /\ Published("server-ready")
    /\ ready
    /\ rtPc = "done"

(***************************************************************************)
(* C4: ready is false until wait_for_server returned Ok; only the Ok       *)
(* branch of the readiness task writes it, that branch is entered at most  *)
(* once, and no step sets it back to false.                                *)
(***************************************************************************)
C4_ReadyWrittenOnce ==
    /\ [](ready => wfsResult = Ok)
    /\ [][ready => ready']_vars
    /\ [][ready' # ready => rtPc = "set_ready" /\ wfsResult = Ok]_vars
    /\ [][rtPc \notin {"wait", "set_ready"} => rtPc' # "set_ready"]_vars

\* ready is still true after the process was killed and has ended
C4_Witness ==
    /\ ready
    /\ kills = 1
    /\ proc = "exited"
    /\ Published("server-crashed")

(***************************************************************************)
(* C5: in one run each of server-ready, server-crashed and server-error    *)
(* is emitted at most once.                                                *)
(***************************************************************************)
C5_EachEventAtMostOnce ==
    \A name \in {"server-ready", "server-crashed", "server-error"} :
        Cardinality(Emissions(name)) <= 1

\* the relay and the readiness task have both emitted their event
C5_Witness ==
    /\ Published("server-crashed")
    /\ Published("server-ready") \/ Published("server-error")
    /\ relayPc = "done"
    /\ rtPc = "done"

(***************************************************************************)
(* C6: once server-crashed has been published while wait_for_server is    *)
(* polling or after it, no further lifecycle event (server-ready,          *)
(* server-error) is published.                                             *)
(***************************************************************************)
C6_CrashedIsFinal ==
    [][Published("server-crashed") /\ requests > 0 => emitted' = emitted]_vars

(***************************************************************************)
(* C7: a 2xx or 3xx answer to attempt k makes wait_for_server return Ok    *)
(* at once: k requests and k - 1 sleeps were made, k <= max_attempts, and  *)
(* no request or sleep follows the return.                                 *)
(***************************************************************************)
C7_ReturnsAtOnce ==
    /\ [](Status2xx3xx(lastResp) =>
            /\ wfsPc = "returned"
            /\ wfsResult = Ok
            /\ requests = i + 1
            /\ sleeps = requests - 1
            /\ requests <= max_attempts)
    /\ [](wfsResult = Ok => Status2xx3xx(lastResp))
    /\ [][wfsPc = "returned" => UNCHANGED <<requests, sleeps, wfsResult>>]_vars

\* the second attempt is the first that succeeds, with a redirection
C7_Witness ==
    /\ wfsResult = Ok
    /\ lastResp = Answer(302)
    /\ requests = 2
    /\ sleeps = 1

(***************************************************************************)
(* C8, as stated: when wait_for_server returns without a 2xx or 3xx        *)
(* answer, it returns the timeout error after exactly max_attempts         *)
(* requests, within max_attempts * (Interval + PerAttemptTimeout).         *)
(***************************************************************************)
C8_AlwaysTimeoutAfterAllAttempts ==
    (wfsPc = "returned" /\ wfsResult # Ok) =>
        /\ wfsResult = Err(TimeoutMessage(SERVER_PORT))
        /\ requests = max_attempts
        /\ elapsed <= C8_Budget

\* a variant of wait_for_server: it decreases with every step of the function
C8_Variant ==
    CASE wfsPc = "idle" -> 3 * max_attempts + 2
      [] wfsPc = "build" -> 3 * max_attempts + 1
      [] wfsPc = "send" -> 3 * (max_attempts - i)
      [] wfsPc = "await" -> 3 * (max_attempts - i) - 1
      [] wfsPc = "sleep" -> 3 * (max_attempts - i) - 2
      [] OTHER -> 0

\* wait_for_server is running
C8_Running == wfsPc \in {"build", "send", "await", "sleep"}

C8_Step == wfsVars' # wfsVars

(***************************************************************************)
(* C8, amended: once the HTTP client is built, wait_for_server without a   *)
(* 2xx or 3xx answer returns the timeout error after exactly max_attempts  *)
(* requests and as many sleeps, within the budget; every answer that is    *)
(* not 2xx or 3xx (error, timeout, other status) leads to the sleep and    *)
(* never to a return; the function can always take its next step while    *)
(* the application lives, and each step decreases a bounded variant, so it *)
(* terminates. Only a failure to build the client returns earlier, with no *)
(* request made.                                                           *)
(***************************************************************************)
C8_TimeoutAfterAllAttemptsOnceBuilt ==
    /\ []((wfsPc = "returned" /\ wfsResult # Ok /\ wfsResult # Err(ClientBuildError)) =>
            /\ wfsResult = Err(TimeoutMessage(SERVER_PORT))
            /\ requests = max_attempts
            /\ sleeps = max_attempts
            /\ elapsed <= C8_Budget)
    /\ [](wfsResult = Err(ClientBuildError) => requests = 0 /\ elapsed = 0)
    /\ []((lastResp # NoResponse /\ ~Status2xx3xx(lastResp)) =>
            wfsPc = "sleep" /\ wfsResult = Pending)
    /\ [](elapsed <= requests * PerAttemptTimeout + sleeps * Interval)
    /\ [](requests <= max_attempts /\ C8_Variant >= 0)
    /\ []((C8_Running /\ ~appExited) =>
            ENABLED (WfsBuildOk \/ WfsSend \/ WfsSleep
                       \/ \E r \in Responses : WfsResponse(r)))
    /\ [][C8_Step => C8_Variant' < C8_Variant]_vars

\* every attempt ran into the timeout of the client: the whole budget is used
C8_Witness ==
    /\ wfsResult = Err(TimeoutMessage(SERVER_PORT))
    /\ requests = max_attempts
    /\ elapsed = C8_Budget

(***************************************************************************)
(* C9: once an invocation of a trigger has run its terminate path,         *)
(* wait_for_server starts no further request.                              *)
(***************************************************************************)
C9_NoAttemptAfterTeardown ==
    [][(\E t \in Triggers : RanWithState(t)) => requests' = requests]_vars

(***************************************************************************)
(* C10: once the relay has handled the Terminated event of a child that   *)
(* ended while wait_for_server was polling, and has published              *)
(* server-crashed, wait_for_server starts no further request.              *)
(***************************************************************************)
C10_NoAttemptAfterCrash ==
    [][Published("server-crashed") /\ requests > 0 => requests' = requests]_vars

(***************************************************************************)
(* C11: after the child has ended on its own and the relay has handled its *)
(* Terminated event, a shutdown trigger is a no-op: it issues no kill and  *)
(* leaves ServerState.child as it is.                                      *)
(***************************************************************************)
C11_NoOpAfterNaturalExit ==
    [][(proc = "exited" /\ kills = 0 /\ Published("server-crashed")) =>
          kills' = kills /\ child' = child]_vars

(***************************************************************************)
(* C12: every invocation of a trigger on the registered state goes         *)
(* through lock, then take: it works on the handle only while it holds the *)
(* child mutex, it can always take its next step, each step brings it      *)
(* closer to its end, and at its end the handle is absent, a kill has been *)
(* issued and the process is killed or has ended, whatever the state of    *)
(* the startup was.                                                        *)
(***************************************************************************)
\* the steps invocation t has left once it holds the lock
C12_StepsLeft(t) ==
    CASE trig[t] = "locked" -> 3
      [] trig[t] = "kill" -> 2
      [] trig[t] = "unlock" -> 1
      [] OTHER -> 0

C12_TriggerLeadsToTerminated ==
    /\ [](\A t \in Triggers :
            /\ trig[t] \in {"locked", "kill", "unlock"} <=> childLock = t
            /\ RanWithState(t) =>
                 child = "None" /\ kills >= 1 /\ proc \in {"killed", "exited"})
    /\ [](\A t \in Triggers :
            trig[t] \in {"locked", "kill", "unlock"} =>
                ENABLED (TrigTake(t) \/ TrigUnlock(t)
                           \/ \E result \in {"Ok", "Err"} : TrigKill(t, result)))
    /\ [][\A t \in Triggers :
            (trig[t] \in {"locked", "kill", "unlock"} /\ trig'[t] # trig[t]) =>
                C12_StepsLeft(t)' < C12_StepsLeft(t)]_vars
    /\ [][child' # child /\ managed =>
            \E t \in Triggers : childLock = t /\ trig[t] = "locked"]_vars

\* a trigger has completed in a run in which the readiness probe timed out
\* and the child ended
C12_Witness ==
    /\ \E t \in Triggers : RanWithState(t)
    /\ wfsResult = Err(TimeoutMessage(SERVER_PORT))
    /\ Published("server-error")
    /\ Published("server-crashed")
    /\ child = "None"
    /\ kills = 1

(***************************************************************************)
(* C13: when creating or spawning the sidecar fails, setup ends there: no  *)
(* request is ever made, neither task is started, no event is published,   *)
(* no process exists and no state, hence no child handle, is registered.   *)
(***************************************************************************)
C13_SpawnFailureStartsNothing ==
    /\ [](setupPc = "failed" =>
            /\ ~managed
            /\ child = "None"
            /\ proc = "none"
            /\ relayPc = "idle"
            /\ rtPc = "idle"
            /\ wfsPc = "idle"
            /\ requests = 0
            /\ emitted = <<>>
            /\ sent = <<>>
            /\ kills = 0)
    /\ [][setupPc = "failed" => setupPc' = "failed"]_vars

\* setup has failed and a trigger has run since
C13_Witness ==
    /\ setupPc = "failed"
    /\ trig[1] = "done"

(***************************************************************************)
(* C14: an Err of wait_for_server is surfaced as exactly one server-error  *)
(* event carrying its message, and neither the return nor the emit         *)
(* changes anything else: the child handle, the kill count, the process    *)
(* and the child mutex stay as they are and ready stays false.             *)
(***************************************************************************)
C14_TimeoutOnlyEmitsError ==
    /\ [][(rtPc = "emit_error" /\ rtPc' = "done") =>
            /\ emitted' = Append(emitted, Event("server-error", wfsResult.msg))
            /\ UNCHANGED <<child, childLock, kills, killResult, ready, proc>>]_vars
    /\ [][(wfsPc # "returned" /\ wfsPc' = "returned" /\ wfsResult' # Ok) =>
            UNCHANGED <<child, childLock, kills, killResult, ready, proc, emitted>>]_vars
    /\ [](wfsResult.tag = "Err" =>
            /\ ~ready
            /\ Cardinality(Emissions("server-error")) = IF rtPc = "done" THEN 1 ELSE 0)
    /\ [](Published("server-error") => wfsResult.tag = "Err")

\* the probe timed out and server-error is out: the process still runs and
\* its handle is still in the state
C14_Witness ==
    /\ wfsResult = Err(TimeoutMessage(SERVER_PORT))
    /\ rtPc = "done"
    /\ Published("server-error")
    /\ child = "Some"
    /\ proc = "running"
    /\ kills = 0
    /\ ~ready

(***************************************************************************)
(* C15, as stated: the Err returned after the last attempt names the port, *)
(* the time budget and the number of attempts.                             *)
(***************************************************************************)
\* the numbers that appear in a timeout message
C15_Numbers(msg) == {msg.seconds, msg.port}

C15_MessageNamesAttemptCount ==
    (wfsPc = "returned" /\ wfsResult = Err(TimeoutMessage(SERVER_PORT))) =>
        /\ SERVER_PORT \in C15_Numbers(wfsResult.msg)
        /\ max_attempts \in C15_Numbers(wfsResult.msg)

(***************************************************************************)
(* C15, amended: the Err returned after the last attempt names the port    *)
(* and the time budget in whole seconds, max_attempts * 300 / 1000, and    *)
(* nothing else; it is the payload of server-error. With 300 attempts the  *)
(* message names 90 s and port 8556, and the number 300 is not in it.      *)
(***************************************************************************)
C15_MessageNamesPortAndBudget ==
    /\ (wfsPc = "returned" /\ wfsResult.tag = "Err" /\ wfsResult # Err(ClientBuildError)) =>
          /\ DOMAIN wfsResult.msg = {"error", "seconds", "port"}
          /\ wfsResult.msg.port = SERVER_PORT
          /\ wfsResult.msg.seconds = (max_attempts * Interval) \div 1000
          /\ requests = max_attempts
    /\ \A k \in Emissions("server-error") : emitted[k].payload = wfsResult.msg
    /\ C15_Numbers(TimeoutMessageFor(SourceMaxAttempts, SERVER_PORT)) = {90, 8556}

\* the timeout message has been emitted with server-error
C15_Witness ==
    /\ wfsResult = Err(TimeoutMessage(SERVER_PORT))
    /\ \E k \in Emissions("server-error") :
          emitted[k].payload = TimeoutMessage(SERVER_PORT)

(***************************************************************************)
(* C16: the relay loses no line and keeps the order of each stream: at     *)
(* every moment the lines logged at info level, followed by the stdout     *)
(* lines still in the channel, are the stdout lines the child has sent, in *)
(* the order sent, each one trimmed; the same for the warn level and       *)
(* stderr; when the relay ends the channel is empty. This holds before and *)
(* after server-ready or server-error is published.                        *)
(***************************************************************************)
\* a line as it is logged: its text without the surrounding blanks
C16_Logged(line) == [n |-> line.n, pad |-> FALSE]

\* the lines of one stream in a sequence of events, in order, as logged
C16_Lines(events, type) ==
    LET stream == SelectSeq(events, LAMBDA ev : ev.type = type)
    IN  [k \in 1 .. Len(stream) |-> C16_Logged(stream[k].line)]

C16_NoLineLost ==
    /\ infoLog \o C16_Lines(rx, "Stdout") = C16_Lines(sent, "Stdout")
    /\ warnLog \o C16_Lines(rx, "Stderr") = C16_Lines(sent, "Stderr")
    /\ relayPc = "done" => rx = <<>>

\* server-ready is out, one stdout line is logged and the next one waits in
\* the channel
C16_Witness ==
    /\ Published("server-ready")
    /\ Len(infoLog) = 1
    /\ rx # <<>>
    /\ Head(rx).type = "Stdout"

(***************************************************************************)
(* C17: the server-crashed events published, in order, carry the codes of  *)
(* the Terminated events the relay has received, in order, an absent code  *)
(* as absent; none is published without such an event, whatever ended the  *)
(* process.                                                                *)
(***************************************************************************)
\* the codes of the Terminated events in a sequence of events
C17_Codes(events) ==
    LET ends == SelectSeq(events, LAMBDA ev : ev.type = "Terminated")
    IN  [k \in 1 .. Len(ends) |-> ends[k].code]

\* the payloads of the server-crashed events published
C17_Crashes ==
    LET crashes == SelectSeq(emitted, LAMBDA ev : ev.name = "server-crashed")
    IN  [k \in 1 .. Len(crashes) |-> crashes[k].payload]

C17_CrashedCarriesCode ==
    C17_Crashes \o C17_Codes(rx) = C17_Codes(sent)

\* the process ended after a trigger killed it, and the relay published the
\* crash with the code of the event
C17_Witness ==
    /\ kills = 1
    /\ killResult = "Ok"
    /\ proc = "exited"
    /\ C17_Crashes = <<<<1>>>>
    /\ relayPc = "done"

(***************************************************************************)
(* C18: a kill that fails is swallowed: the step in which it fails         *)
(* publishes nothing and leaves the handle absent, the handler goes on to  *)
(* its end, which it can always reach, no second kill follows, and events  *)
(* are only ever published by steps that are not steps of a handler.       *)
(***************************************************************************)
C18_KillFailureSwallowed ==
    /\ [][killResult' = "Err" /\ killResult # "Err" =>
            /\ emitted' = emitted
            /\ child = "None" /\ child' = "None"
            /\ \E t \in Triggers : trig[t] = "kill" /\ trig'[t] = "unlock"]_vars
    /\ [](killResult = "Err" => kills = 1 /\ child = "None")
    /\ [][killResult = "Err" => killResult' = "Err" /\ kills' = kills]_vars
    /\ [](\A t \in Triggers : trig[t] = "unlock" => ENABLED TrigUnlock(t))
    /\ [][emitted' # emitted => trig' = trig]_vars

\* the process ended on its own, the kill of a trigger failed and the handler
\* has returned
C18_Witness ==
    /\ killResult = "Err"
    /\ \E t \in Triggers : RanWithState(t)
    /\ proc = "exited"
    /\ child = "None"
    /\ kills = 1

(***************************************************************************)
(* C19: the ready mutex is held only by the readiness task, between its    *)
(* write of ready and the navigation, after wait_for_server has returned;  *)
(* the child mutex is held only by a trigger handler, between its lock and *)
(* its return; the relay holds none. The holder of a mutex never waits:    *)
(* its next step is enabled whatever the other tasks do, and a handler     *)
(* releases the child mutex after at most three steps. The readiness task  *)
(* never finds the ready mutex held. Hence no task holds both, and no task *)
(* waits for a mutex for ever.                                             *)
(***************************************************************************)
C19_NoDeadlock ==
    /\ [](/\ readyLock \in {"free", "readiness"}
          /\ childLock \in {0} \cup Triggers
          /\ readyLock = "readiness" <=> (managed /\ rtPc = "navigate")
          /\ readyLock = "readiness" => wfsPc = "returned"
          /\ \A t \in Triggers :
                childLock = t <=> trig[t] \in {"locked", "kill", "unlock"})
    /\ [](readyLock = "readiness" /\ ~appExited => ENABLED RtNavigate)
    /\ [](rtPc = "set_ready" /\ ~appExited => ENABLED RtSetReady)
    /\ [](\A t \in Triggers :
            /\ trig[t] = "locked" => ENABLED TrigTake(t)
            /\ trig[t] = "kill" => ENABLED (\E result \in {"Ok", "Err"} : TrigKill(t, result))
            /\ trig[t] = "unlock" => ENABLED TrigUnlock(t))
    /\ [][\A t \in Triggers :
            childLock = t =>
                \/ trig'[t] = trig[t]
                \/ C12_StepsLeft(t)' < C12_StepsLeft(t)]_vars

\* both mutexes are held at once, by two tasks, while the relay has events
\* to receive
C19_Witness ==
    /\ readyLock = "readiness"
    /\ childLock # 0
    /\ rx # <<>>

(***************************************************************************)
(* C20: once ServerState is registered, child changes only in the step in  *)
(* which a trigger handler that holds the child mutex takes the handle.    *)
(* The steps of the relay, termination events included, those of the       *)
(* readiness task and an invocation of server_health leave it unchanged;   *)
(* so the handle is absent only if a handler took it, also after the       *)
(* process has exited on its own.                                          *)
(***************************************************************************)
\* the step is one of the relay: it receives an event or ends
C20_RelayStep == relayPc = "recv" /\ (Len(rx') < Len(rx) \/ relayPc' = "done")

\* the step is one of the readiness task, in wait_for_server or after it
C20_ReadinessStep == wfsPc # "idle" /\ (wfsVars' # wfsVars \/ rtPc' # rtPc)

C20_OnlyTriggersModifyChild ==
    /\ [][managed /\ child' # child =>
            \E t \in Triggers :
                childLock = t /\ trig[t] = "locked" /\ trig'[t] = "kill"]_vars
    /\ [][C20_RelayStep \/ C20_ReadinessStep =>
            child' = child /\ childLock' = childLock]_vars
    /\ [](managed /\ child = "None" =>
            \E t \in Triggers :
                foundState[t] /\ trig[t] \in {"kill", "unlock", "done"})

\* the process exited on its own, the relay published the crash and ended,
\* the readiness task ended, and the handle is still in the state
C20_Witness ==
    /\ proc = "exited"
    /\ Published("server-crashed")
    /\ relayPc = "done"
    /\ rtPc = "done"
    /\ kills = 0
    /\ child = "Some"
    /\ \A t \in Triggers : trig[t] = "idle"

====
